---------------------------- MODULE Spec2Model ----------------------------
(***************************************************************************)
(* EpipolarGeometry (src/src/geometry/epipolar.py): the correspondence     *)
(* matcher match_features and the relative pose estimator estimate_pose.   *)
(*                                                                         *)
(* The object holds one attribute, K.  A call is one step: from the idle   *)
(* object it runs the whole method and leaves a snapshot of the call in    *)
(* `last` (arguments, the values of the method's locals, what it returned  *)
(* or that it raised).  The caller then takes the result (Consume).        *)
(*                                                                         *)
(* OpenCV is not part of the repository.  Its three entry points are       *)
(* modelled by what they hand back to the Python code:                     *)
(*   - BFMatcher.knnMatch(k): for every query, in query order, the         *)
(*     min(k, |train|) nearest train descriptors, nearest first; which of  *)
(*     several equidistant descriptors comes first is left open;           *)
(*   - findEssentialMat: nothing, one 3x3 matrix or several stacked 3x3    *)
(*     solutions, and an inlier flag per correspondence; which of these a  *)
(*     given input produces is left open;                                  *)
(*   - recoverPose(E, p1, p2, K, mask): the four (R, t) candidates of E,   *)
(*     every correspondence triangulated under each of them, a point kept  *)
(*     for a candidate when its depth is positive and below the distance   *)
(*     threshold of this overload in both cameras and the mask argument    *)
(*     marks it, the candidate keeping most points returned with its mask. *)
(*     Where each point lies under each candidate is left open.            *)
(* Descriptors are vectors of one integer component, so that the L2 norm   *)
(* is the absolute difference; the ratio test is evaluated exactly.        *)
(***************************************************************************)
EXTENDS Integers, Sequences, FiniteSets

VARIABLES self, camera_intrinsics, pc, last

vars == <<self, camera_intrinsics, pc, last>>

\* Python's None, and a value that is present
None == <<>>
Some(x) == <<x>>

\* ------------------------------------------------------------ bounds
\* most query descriptors (desc1) handed to match_features
MaxQuery == 2
\* most train descriptors (desc2) handed to match_features
MaxTrain == 3
\* most correspondences handed to estimate_pose
MaxPts == 5
\* most stacked solutions findEssentialMat hands back
MaxSolutions == 2

\* --------------------------------------------------- program constants
\* knnMatch(desc1, desc2, k=2)
KnnK == 2
\* m.distance < 0.8 * n.distance, as the fraction RatioNum / RatioDen
RatioNum == 8
RatioDen == 10
\* if len(kpts1) < 5
MinPoints == 5

\* ------------------------------------------------------------ __init__
Intrinsics ==
    { [fx |-> 800, fy |-> 800, cx |-> 320, cy |-> 240],
      [fx |-> 700, fy |-> 710, cx |-> 300, cy |-> 200] }

IntrinsicMatrixSwapped(ci) ==
    << <<ci.fx, 0, ci.cy>>,
       <<0, ci.fy, ci.cx>>,
       <<0, 0, 1>> >>

IntrinsicMatrix(ci) ==
    << <<ci.fx, 0, ci.cx>>,
       <<0, ci.fy, ci.cy>>,
       <<0, 0, 1>> >>

Init ==
    /\ camera_intrinsics \in Intrinsics
    /\ self = [K |-> IntrinsicMatrix(camera_intrinsics)]
    /\ pc = "idle"
    /\ last = [op |-> "idle"]

\* ------------------------------------------------------ match_features
Abs(x) == IF x < 0 THEN -x ELSE x

Min2(a, b) == IF a < b THEN a ELSE b

\* cv2.NORM_L2 on one-component descriptors
Distance(a, b) == Abs(a - b)

\* The values a descriptor's component takes.  Their distances are 0, 1, 4
\* and 5: 0 against 0 and 4 against 5 lie exactly on the ratio of the test,
\* 1 against 4 passes it, 1 against 1 and 5 against 5 fail it.
DescVals == {0, 1, 5}

DescriptorSets(most) == UNION { [1..n -> DescVals] : n \in 0..most }

\* The neighbour lists knnMatch may hand back for one query descriptor d:
\* min(k, |desc2|) distinct train positions, nearest first, nothing left out
\* that is nearer than the last one listed.
Neighbours(d, desc2, k) ==
    LET M == Len(desc2)
        kk == Min2(k, M)
    IN  { s \in [1..kk -> 1..M] :
            /\ \A a, b \in 1..kk : a < b =>
                  /\ s[a] # s[b]
                  /\ Distance(d, desc2[s[a]]) <= Distance(d, desc2[s[b]])
            /\ \A j \in 1..M :
                  (\A a \in 1..kk : s[a] # j) =>
                      \A a \in 1..kk : Distance(d, desc2[s[a]]) <= Distance(d, desc2[j]) }

\* cv2.DMatch; queryIdx and trainIdx count from 0
DMatch(i, j, desc1, desc2) ==
    [queryIdx |-> i - 1, trainIdx |-> j - 1,
     distance |-> Distance(desc1[i], desc2[j])]

RECURSIVE KnnFrom(_, _, _, _)
\* the results knnMatch may hand back for queries i..Len(desc1)
KnnFrom(desc1, desc2, k, i) ==
    IF i > Len(desc1) THEN { <<>> }
    ELSE { <<[a \in 1..Len(s) |-> DMatch(i, s[a], desc1, desc2)]>> \o rest :
             s \in Neighbours(desc1[i], desc2, k),
             rest \in KnnFrom(desc1, desc2, k, i + 1) }

KnnMatch(desc1, desc2, k) == KnnFrom(desc1, desc2, k, 1)

RatioTestLe(m, n) == RatioDen * m.distance <= RatioNum * n.distance

\* m.distance < 0.8 * n.distance
RatioTest(m, n) == RatioDen * m.distance < RatioNum * n.distance

\* "for m, n in knn_matches" unpacks every entry into exactly two values;
\* an entry of any other length raises ValueError.
Unpacks(knn_matches) == \A i \in 1..Len(knn_matches) : Len(knn_matches[i]) = 2

RECURSIVE GoodMatchesRev(_)
GoodMatchesRev(knn_matches) ==
    IF knn_matches = <<>> THEN <<>>
    ELSE LET m == Head(knn_matches)[1]
             n == Head(knn_matches)[2]
         IN  GoodMatchesRev(Tail(knn_matches))
                \o (IF RatioTest(m, n) THEN <<m>> ELSE <<>>)

RECURSIVE GoodMatches(_)
\* the loop of lines 50-54, over entries that unpack
GoodMatches(knn_matches) ==
    IF knn_matches = <<>> THEN <<>>
    ELSE LET m == Head(knn_matches)[1]
             n == Head(knn_matches)[2]
         IN  (IF RatioTest(m, n) THEN <<m>> ELSE <<>>)
                \o GoodMatches(Tail(knn_matches))

MatchFeatures ==
    /\ pc = "idle"
    /\ \E desc1 \in DescriptorSets(MaxQuery), desc2 \in DescriptorSets(MaxTrain) :
         \E knn_matches \in KnnMatch(desc1, desc2, KnnK) :
            IF Unpacks(knn_matches)
            THEN LET good_matches == GoodMatches(knn_matches)
                 IN  last' = [op |-> "match_features",
                              desc1 |-> desc1, desc2 |-> desc2,
                              knn_matches |-> knn_matches,
                              raised |-> FALSE,
                              idx1 |-> [p \in 1..Len(good_matches) |-> good_matches[p].queryIdx],
                              idx2 |-> [p \in 1..Len(good_matches) |-> good_matches[p].trainIdx]]
            ELSE last' = [op |-> "match_features",
                          desc1 |-> desc1, desc2 |-> desc2,
                          knn_matches |-> knn_matches,
                          raised |-> TRUE,
                          idx1 |-> None, idx2 |-> None]
    /\ pc' = "returned"
    /\ UNCHANGED <<self, camera_intrinsics>>

\* ------------------------------------------------------- estimate_pose
TooFewBelow(n) == n < MinPoints - 1

\* len(kpts1) < 5
TooFew(n) == n < MinPoints

PartialEstimate == [R |-> None, t |-> None, inlier_mask |-> Some(<<>>)]

\* return None, None, None
NoEstimate == [R |-> None, t |-> None, inlier_mask |-> None]

\* What findEssentialMat may hand back as E: nothing, or the shape of an
\* array of 1..MaxSolutions stacked 3x3 solutions.
EssentialMats == { None } \cup { <<3 * s, 3>> : s \in 1..MaxSolutions }

BadENoneOnly(E) == E = None

\* E is None or E.shape != (3, 3)
BadE(E) == E = None \/ E # <<3, 3>>

\* The four candidates recoverPose derives from E, in its order:
\* (R1, t), (R2, t), (R1, -t), (R2, -t).
Candidates ==
    << [R |-> "R1", t |-> "+t"], [R |-> "R2", t |-> "+t"],
       [R |-> "R1", t |-> "-t"], [R |-> "R2", t |-> "-t"] >>

\* Where a triangulated correspondence lies under one candidate:
\*   "behind"  not in front of both cameras,
\*   "near"    in front of both cameras, depth below the distance threshold,
\*   "far"     in front of both cameras, beyond the distance threshold.
\* A correspondence is in front of both cameras under at most one candidate.
InFront(c, d) == [x \in DOMAIN Candidates |-> IF x = c THEN d ELSE "behind"]

DepthPatterns ==
    << InFront(0, "near") >>
       \o [c \in DOMAIN Candidates |-> InFront(c, "near")]
       \o [c \in DOMAIN Candidates |-> InFront(c, "far")]

RECURSIVE SortedFrom(_, _)
SortedFrom(n, lo) ==
    IF n = 0 THEN { <<>> }
    ELSE UNION { { <<q>> \o rest : rest \in SortedFrom(n - 1, q) } :
                    q \in lo..Len(DepthPatterns) }

\* Where n triangulated correspondences may lie.  recoverPose and the return
\* treat the positions alike, so the correspondences are enumerated up to
\* their order, grouped by pattern; the inlier flags are not.
Triangulations(n) ==
    { [k \in 1..n |-> DepthPatterns[qs[k]]] : qs \in SortedFrom(n, 1) }

\* cv2.findEssentialMat(...): (E, mask), one 0/1 inlier flag per correspondence
FindEssentialMat(n) == [E : EssentialMats, mask : [1..n -> {0, 1}]]

CountOnes(m) == Cardinality({ k \in DOMAIN m : m[k] > 0 })

\* recoverPose's mask of one candidate: the points in front of both cameras
\* and below the distance threshold, and-ed with the mask argument.
KeptMask(c, depth, mask) ==
    [k \in DOMAIN depth |->
        IF depth[k][c] = "near" /\ mask[k] > 0 THEN 1 ELSE 0]

SelectFirst(good) == 1

\* if good1 >= good2 && good1 >= good3 && good1 >= good4 ... else if good2 ...
SelectCandidate(good) ==
    IF good[1] >= good[2] /\ good[1] >= good[3] /\ good[1] >= good[4] THEN 1
    ELSE IF good[2] >= good[1] /\ good[2] >= good[3] /\ good[2] >= good[4] THEN 2
    ELSE IF good[3] >= good[1] /\ good[3] >= good[2] /\ good[3] >= good[4] THEN 3
    ELSE 4

\* cv2.recoverPose(E, points1, points2, cameraMatrix, mask): raises unless E
\* is 3x3; otherwise (retval, R, t, mask) of the selected candidate.
RecoverPose(E, depth, mask) ==
    IF E # <<3, 3>>
    THEN [raised |-> TRUE]
    ELSE LET good == [c \in DOMAIN Candidates |-> CountOnes(KeptMask(c, depth, mask))]
             sel == SelectCandidate(good)
         IN  [raised |-> FALSE, good |-> good, sel |-> sel,
              R |-> Candidates[sel].R, t |-> Candidates[sel].t,
              mask |-> KeptMask(sel, depth, mask)]

PoseMaskAll(mask) == [k \in DOMAIN mask |-> 1]

\* the mask=mask argument of the recoverPose call
PoseMask(mask) == mask

RavelCompress(mask_pose) ==
    LET kept == SelectSeq(mask_pose, LAMBDA v : v > 0)
    IN  [k \in DOMAIN kept |-> TRUE]

\* mask_pose.ravel() > 0
Ravel(mask_pose) == [k \in DOMAIN mask_pose |-> mask_pose[k] > 0]

PoseCall(n, fit, rec, E, mask, depth, rp, raised, ret) ==
    [op |-> "estimate_pose", n |-> n,
     fitCalled |-> fit, recoverCalled |-> rec,
     E |-> E, mask |-> mask, depth |-> depth, pose |-> rp,
     raised |-> raised, ret |-> ret]

EstimatePose ==
    /\ pc = "idle"
    /\ \E n \in 0..MaxPts :
         IF TooFew(n)
         THEN last' = PoseCall(n, FALSE, FALSE, None, None, None, None, FALSE, NoEstimate)
         ELSE \E fit \in FindEssentialMat(n) :
                LET E == fit.E
                    mask == fit.mask
                IN  IF BadE(E)
                    THEN last' = PoseCall(n, TRUE, FALSE, E, mask, None, None, FALSE, NoEstimate)
                    ELSE \E depth \in Triangulations(n) :
                           LET rp == RecoverPose(E, depth, PoseMask(mask))
                           IN  IF rp.raised
                               THEN last' = PoseCall(n, TRUE, TRUE, E, mask, depth, rp,
                                                     TRUE, NoEstimate)
                               ELSE last' = PoseCall(n, TRUE, TRUE, E, mask, depth, rp, FALSE,
                                                     [R |-> Some(rp.R), t |-> Some(rp.t),
                                                      inlier_mask |-> Some(Ravel(rp.mask))])
    /\ pc' = "returned"
    /\ UNCHANGED <<self, camera_intrinsics>>

\* the caller takes the result of the call
Consume ==
    /\ pc = "returned"
    /\ pc' = "idle"
    /\ last' = [op |-> "idle"]
    /\ UNCHANGED <<self, camera_intrinsics>>

Next == MatchFeatures \/ EstimatePose \/ Consume

Spec == Init /\ [][Next]_vars
\* ------------------------------------------------------------- claims
MatchReturned == last.op = "match_features" /\ ~last.raised

PoseCalled == last.op = "estimate_pose"

AllAbsent(ret) == ret.R = None /\ ret.t = None /\ ret.inlier_mask = None

AllPresent(ret) == ret.R # None /\ ret.t # None /\ ret.inlier_mask # None

PoseSucceeded == PoseCalled /\ ~last.raised /\ AllPresent(last.ret)

\* C1: a call of estimate_pose with fewer than 5 correspondences returns
\* (None, None, None) and calls neither findEssentialMat nor recoverPose.
C1_TooFewNoEstimate ==
    (PoseCalled /\ last.n < 5) =>
        /\ ~last.raised
        /\ AllAbsent(last.ret)
        /\ ~last.fitCalled
        /\ ~last.recoverCalled

C1_Witness ==
    PoseCalled /\ last.n = 4 /\ AllAbsent(last.ret) /\ ~last.fitCalled

\* distances from descriptor d to the train set, computed from the arguments
NearestDistance(d, desc2) ==
    CHOOSE v \in { Distance(d, desc2[j]) : j \in DOMAIN desc2 } :
        \A j \in DOMAIN desc2 : v <= Distance(d, desc2[j])

SecondNearestDistance(d, desc2) ==
    LET cand == { Distance(d, desc2[j]) : j \in { x \in DOMAIN desc2 :
                     \E y \in DOMAIN desc2 :
                        y # x /\ ( Distance(d, desc2[y]) < Distance(d, desc2[x])
                                   \/ (Distance(d, desc2[y]) = Distance(d, desc2[x]) /\ y < x) ) } }
    IN  CHOOSE v \in cand : \A w \in cand : v <= w

Accepted(i) == \E p \in DOMAIN last.idx1 : last.idx1[p] = i - 1

\* C2: every correspondence (i, j) match_features returns has j a nearest
\* neighbour of desc1[i] in desc2 and nearest < 0.8 * second nearest; a query
\* with nearest >= 0.8 * second nearest (both 0 included) is never returned.
C2_RatioBound ==
    MatchReturned =>
        /\ \A p \in DOMAIN last.idx1 :
             LET d == last.desc1[last.idx1[p] + 1]
                 j == last.idx2[p] + 1
             IN  /\ Len(last.desc2) >= 2
                 /\ Distance(d, last.desc2[j]) = NearestDistance(d, last.desc2)
                 /\ 10 * NearestDistance(d, last.desc2)
                      < 8 * SecondNearestDistance(d, last.desc2)
        /\ \A i \in DOMAIN last.desc1 :
             ( /\ Len(last.desc2) >= 2
               /\ 10 * NearestDistance(last.desc1[i], last.desc2)
                    >= 8 * SecondNearestDistance(last.desc1[i], last.desc2) )
                => ~Accepted(i)

C2_Witness ==
    /\ MatchReturned
    /\ Len(last.desc2) = 3
    /\ \E i \in DOMAIN last.desc1 : Accepted(i)
    /\ \E i \in DOMAIN last.desc1 :
         /\ ~Accepted(i)
         /\ NearestDistance(last.desc1[i], last.desc2) = 0
         /\ SecondNearestDistance(last.desc1[i], last.desc2) = 0

\* C3: with fewer than 2 descriptors in desc2, match_features returns empty
\* idx1 and idx2 for any desc1, without raising.
C3_FewTrainEmpty ==
    (last.op = "match_features" /\ Len(last.desc2) < 2) =>
        /\ ~last.raised
        /\ last.idx1 = <<>>
        /\ last.idx2 = <<>>

\* C4: a successful estimate_pose on N >= 5 correspondences returns a mask
\* that is a sequence of N booleans, position k telling of correspondence k.
C4_MaskLength ==
    (PoseSucceeded /\ last.n >= 5) =>
        LET inlier_mask == last.ret.inlier_mask[1]
        IN  /\ DOMAIN inlier_mask = 1..last.n
            /\ \A k \in 1..last.n :
                 /\ inlier_mask[k] \in BOOLEAN
                 /\ inlier_mask[k] = (last.pose.mask[k] > 0)

C4_Witness ==
    /\ PoseSucceeded
    /\ last.n = 5
    /\ Len(last.ret.inlier_mask[1]) = 5
    /\ \E k \in 1..5 : last.ret.inlier_mask[1][k]
    /\ \E k \in 1..5 : ~last.ret.inlier_mask[1][k]

\* C5: with 5 or more correspondences and a fit that yields no matrix or one
\* whose shape is not 3x3, estimate_pose returns (None, None, None), does not
\* raise and does not call recoverPose.
C5_BadFitNoEstimate ==
    (PoseCalled /\ last.n >= 5 /\ last.fitCalled /\ last.E # <<3, 3>>) =>
        /\ ~last.raised
        /\ AllAbsent(last.ret)
        /\ ~last.recoverCalled

C5_Witness ==
    /\ PoseCalled
    /\ last.n >= 5
    /\ last.E = <<6, 3>>
    /\ AllAbsent(last.ret)
    /\ ~last.recoverCalled

\* C6: what estimate_pose returns has R, t and the mask all present or all
\* absent.
C6_AllOrNothing ==
    (PoseCalled /\ ~last.raised) => (AllAbsent(last.ret) \/ AllPresent(last.ret))

C6_Witness ==
    /\ PoseSucceeded
    /\ last.ret.R = Some("R2")
    /\ last.ret.t = Some("-t")
    /\ Len(last.ret.inlier_mask[1]) = last.n

\* the candidates equal to the (R, t) that was returned
Returned ==
    { c \in DOMAIN Candidates :
        Candidates[c] = [R |-> last.ret.R[1], t |-> last.ret.t[1]] }

PositiveDepth(k, c) == last.depth[k][c] \in {"near", "far"}

\* C7: in a successful result, a true mask entry at k means that the robust
\* fit marked k an inlier and that k has positive depth in both cameras under
\* the returned (R, t); a correspondence the fit rejected is never marked.
C7_MaskWithinFit ==
    PoseSucceeded =>
        /\ Returned # {}
        /\ \A k \in 1..last.n :
             /\ last.ret.inlier_mask[1][k] =>
                  /\ last.mask[k] = 1
                  /\ \A c \in Returned : PositiveDepth(k, c)
             /\ last.mask[k] = 0 => ~last.ret.inlier_mask[1][k]

C7_Witness ==
    /\ PoseSucceeded
    /\ \E k \in 1..last.n : last.ret.inlier_mask[1][k]
    /\ \E k \in 1..last.n :
         /\ last.mask[k] = 0
         /\ \A c \in Returned : PositiveDepth(k, c)
         /\ ~last.ret.inlier_mask[1][k]

PositiveCount(c) ==
    Cardinality({ k \in 1..last.n : last.mask[k] = 1 /\ PositiveDepth(k, c) })

NearCount(c) ==
    Cardinality({ k \in 1..last.n : last.mask[k] = 1 /\ last.depth[k][c] = "near" })

\* C8 as claimed: four candidates, two rotations times two translation signs,
\* and the returned (R, t) is one whose count of fit inliers in front of both
\* cameras is largest among the four.
C8_MaxPositiveDepth ==
    PoseSucceeded =>
        /\ Cardinality({ Candidates[c] : c \in DOMAIN Candidates }) = 4
        /\ { Candidates[c] : c \in DOMAIN Candidates }
             = [R : {"R1", "R2"}, t : {"+t", "-t"}]
        /\ \E c \in Returned :
             \A other \in DOMAIN Candidates : PositiveCount(other) <= PositiveCount(c)

\* C8 amended: four candidates, two rotations times two translation signs,
\* and the returned (R, t) is one whose count of fit inliers in front of both
\* cameras and nearer than recoverPose's distance threshold is largest among
\* the four; points beyond the threshold are not counted.
C8_MaxNearDepth ==
    PoseSucceeded =>
        /\ Cardinality({ Candidates[c] : c \in DOMAIN Candidates }) = 4
        /\ { Candidates[c] : c \in DOMAIN Candidates }
             = [R : {"R1", "R2"}, t : {"+t", "-t"}]
        /\ \E c \in Returned :
             \A other \in DOMAIN Candidates : NearCount(other) <= NearCount(c)

C8_Witness ==
    /\ PoseSucceeded
    /\ \E c \in Returned :
         /\ c = 3
         /\ \A other \in DOMAIN Candidates \ {c} : NearCount(other) < NearCount(c)
         /\ \E other \in DOMAIN Candidates : PositiveCount(other) > PositiveCount(c)

\* C9: idx1 and idx2 returned by match_features have equal length, idx1 is
\* strictly increasing, idx1 holds indices of desc1 and idx2 indices of desc2.
C9_QueryOrder ==
    MatchReturned =>
        /\ Len(last.idx1) = Len(last.idx2)
        /\ \A p, q \in DOMAIN last.idx1 : p < q => last.idx1[p] < last.idx1[q]
        /\ \A p \in DOMAIN last.idx1 :
             /\ last.idx1[p] \in 0..(Len(last.desc1) - 1)
             /\ last.idx2[p] \in 0..(Len(last.desc2) - 1)

\* two queries accepted, in query order, both claiming the same desc2 index
C9_Witness ==
    /\ MatchReturned
    /\ Len(last.idx1) = 2
    /\ last.idx1[1] < last.idx1[2]
    /\ last.idx2[1] = last.idx2[2]

=============================================================================
